---------------------------- MODULE Spec2Model ----------------------------
(***************************************************************************)
(* Model of the long/short-ratio aggregation route                         *)
(* (src/app/api/long-short_ratio/route.ts) and of the dashboard component  *)
(* that consumes it (src/unnamed/part_000).                                *)
(*                                                                         *)
(* JavaScript values are modelled as records of one shape,                 *)
(*   [t, n, d, s]                                                          *)
(* where t is the kind ("undef", "null", "num", "nan", "inf", "ninf",      *)
(* "str"), n/d is the value of a finite number as a reduced fraction and   *)
(* s is the text of a string as a sequence of one-character strings.       *)
(* Finite numbers are exact rationals: the rounding of IEEE doubles        *)
(* (about 1e-16 relative) is not modelled, nor are signed zeros.           *)
(***************************************************************************)
EXTENDS Integers, Sequences, FiniteSets, TLC

VARIABLES
    \* ---- one GET request of the route (route.ts:66-230) ----
    symbolParam,    \* searchParams.get('symbol'), "" when absent
    timeframeParam, \* searchParams.get('timeframe'), <<>> when absent
    getPc,          \* "idle" | "awaiting" | "returned" | "rejected"
    promises,       \* promises[i]: state of the i-th adapter's promise
    netCalls,       \* network calls issued so far, in issue order
    upstream,       \* upstream[i]: what the i-th adapter's upstream call produced
    results,        \* the list handed to NextResponse.json, <<>> before that
    plan,           \* a fixed vector of upstream outcomes (isolation runs only)
    failing,        \* the adapter whose transport fails in the first isolation run
    run,            \* 1 or 2: which isolation run is executing
    resultsA,       \* the result list of the first isolation run
    ccxtHas,        \* exchange.has['fetchLongShortRatioHistory'] per CCXT class
    firstCompleted, \* the adapter whose upstream call settled first, 0 before
    \* ---- one adapter applied to one upstream outcome ----
    adEx, adTf, adHas, adOutcome, adRecord, adCalled,
    \* ---- the dashboard component (part_000:92-122) ----
    symbol, timeframe,  \* the selected symbol and timeframe (useState)
    ratioData,          \* the stored response, tagged with the request it answers
    loading,
    availableSymbols,
    inflight,           \* the ratio fetches awaiting their response
    issued,             \* how many ratio fetches have been issued
    failedIds           \* the ratio fetches that threw

vars == <<symbolParam, timeframeParam, getPc, promises, netCalls, upstream,
          results, plan, failing, run, resultsA, ccxtHas, firstCompleted,
          adEx, adTf, adHas, adOutcome, adRecord, adCalled,
          symbol, timeframe, ratioData, loading, availableSymbols, inflight,
          issued, failedIds>>

getVars  == <<symbolParam, timeframeParam, getPc, promises, netCalls, upstream,
              results, plan, failing, run, resultsA, ccxtHas, firstCompleted>>
adVars   == <<adEx, adTf, adHas, adOutcome, adRecord, adCalled>>
dashVars == <<symbol, timeframe, ratioData, loading, availableSymbols, inflight,
              issued, failedIds>>

---------------------------------------------------------------------------
(* JavaScript numbers                                                      *)

RECURSIVE Gcd(_, _)
Gcd(a, b) == IF b = 0 THEN a ELSE Gcd(b, a % b)

Abs(x) == IF x < 0 THEN -x ELSE x

JsUndef == [t |-> "undef", n |-> 0, d |-> 1, s |-> <<>>]
JsNull  == [t |-> "null",  n |-> 0, d |-> 1, s |-> <<>>]
JsNaN   == [t |-> "nan",   n |-> 0, d |-> 1, s |-> <<>>]
JsInf   == [t |-> "inf",   n |-> 0, d |-> 1, s |-> <<>>]
JsNInf  == [t |-> "ninf",  n |-> 0, d |-> 1, s |-> <<>>]
JsStr(chars) == [t |-> "str", n |-> 0, d |-> 1, s |-> chars]

\* The finite number n/d (d # 0), reduced, with the sign in the numerator.
Num(n, d) ==
    LET g  == Gcd(Abs(n), Abs(d))
        sg == IF d < 0 THEN -1 ELSE 1
    IN  [t |-> "num", n |-> sg * (n \div g), d |-> sg * (d \div g), s |-> <<>>]

IsNum(x)    == x.t = "num"
IsNumber(x) == x.t \in {"num", "nan", "inf", "ninf"}   \* typeof x === 'number'

\* x + y, x - y, x * y, x / y on numbers (IEEE rules for NaN and the infinities).
JsAdd(x, y) ==
    CASE x.t = "nan" \/ y.t = "nan" -> JsNaN
      [] x.t = "inf"  -> IF y.t = "ninf" THEN JsNaN ELSE JsInf
      [] x.t = "ninf" -> IF y.t = "inf" THEN JsNaN ELSE JsNInf
      [] y.t = "inf"  -> JsInf
      [] y.t = "ninf" -> JsNInf
      [] OTHER ->
            LET g == Gcd(x.d, y.d)   \* over the least common denominator
            IN  Num(x.n * (y.d \div g) + y.n * (x.d \div g), (x.d \div g) * y.d)

JsNeg(x) ==
    CASE x.t = "inf" -> JsNInf
      [] x.t = "ninf" -> JsInf
      [] x.t = "nan" -> JsNaN
      [] OTHER -> Num(-x.n, x.d)

JsSub(x, y) == JsAdd(x, JsNeg(y))

Sign(x) ==
    CASE x.t = "inf" -> 1
      [] x.t = "ninf" -> -1
      [] OTHER -> IF x.n > 0 THEN 1 ELSE IF x.n < 0 THEN -1 ELSE 0

JsMul(x, y) ==
    CASE x.t = "nan" \/ y.t = "nan" -> JsNaN
      [] x.t \in {"inf", "ninf"} \/ y.t \in {"inf", "ninf"} ->
            IF Sign(x) * Sign(y) = 0 THEN JsNaN
            ELSE IF Sign(x) * Sign(y) > 0 THEN JsInf ELSE JsNInf
      [] OTHER ->
            LET g1 == Gcd(Abs(x.n), y.d)   \* cancel before multiplying
                g2 == Gcd(Abs(y.n), x.d)
            IN  Num((x.n \div g1) * (y.n \div g2), (x.d \div g2) * (y.d \div g1))

JsDiv(x, y) ==
    CASE x.t = "nan" \/ y.t = "nan" -> JsNaN
      [] x.t \in {"inf", "ninf"} ->
            IF y.t \in {"inf", "ninf"} THEN JsNaN
            ELSE IF Sign(x) * (IF Sign(y) < 0 THEN -1 ELSE 1) > 0 THEN JsInf ELSE JsNInf
      [] y.t \in {"inf", "ninf"} -> Num(0, 1)
      [] y.n = 0 ->
            IF x.n = 0 THEN JsNaN ELSE IF x.n > 0 THEN JsInf ELSE JsNInf
      [] OTHER -> JsMul(x, Num(y.d, y.n))

\* x > 0 (false for NaN)
JsGtZero(x) ==
    CASE x.t = "inf" -> TRUE
      [] x.t = "num" -> x.n > 0
      [] OTHER -> FALSE

\* !!x
Truthy(x) ==
    CASE x.t \in {"undef", "null", "nan"} -> FALSE
      [] x.t = "num" -> x.n # 0
      [] x.t = "str" -> Len(x.s) > 0
      [] OTHER -> TRUE

---------------------------------------------------------------------------
(* Text to number: parseFloat and the implicit ToNumber                    *)

Digits == {"0", "1", "2", "3", "4", "5", "6", "7", "8", "9"}

DigitVal(c) ==
    CASE c = "0" -> 0 [] c = "1" -> 1 [] c = "2" -> 2 [] c = "3" -> 3
      [] c = "4" -> 4 [] c = "5" -> 5 [] c = "6" -> 6 [] c = "7" -> 7
      [] c = "8" -> 8 [] c = "9" -> 9

RECURSIVE DigitRun(_, _)
\* the number of consecutive digits of chars starting at position i
DigitRun(chars, i) ==
    IF i <= Len(chars) /\ chars[i] \in Digits THEN 1 + DigitRun(chars, i + 1) ELSE 0

RECURSIVE DigitsValue(_, _, _)
\* the value of the k digits of chars starting at position i
DigitsValue(chars, i, k) ==
    IF k = 0 THEN 0
    ELSE 10 * DigitsValue(chars, i, k - 1) + DigitVal(chars[i + k - 1])

RECURSIVE Pow10(_)
Pow10(k) == IF k = 0 THEN 1 ELSE 10 * Pow10(k - 1)

\* The longest numeric prefix of chars: [-+] digits [. digits].  Exponents,
\* leading white space and the literal Infinity are not in the modelled texts.
NumericPrefix(chars) ==
    LET signed == Len(chars) > 0 /\ chars[1] \in {"-", "+"}
        neg    == signed /\ chars[1] = "-"
        i0     == IF signed THEN 2 ELSE 1
        ki     == DigitRun(chars, i0)
        dot    == i0 + ki <= Len(chars) /\ chars[i0 + ki] = "."
        kf     == IF dot THEN DigitRun(chars, i0 + ki + 1) ELSE 0
        ok     == ki + kf > 0
        mag    == DigitsValue(chars, i0, ki) * Pow10(kf)
                    + (IF kf > 0 THEN DigitsValue(chars, i0 + ki + 1, kf) ELSE 0)
        used   == (i0 - 1) + ki + (IF dot /\ (kf > 0 \/ ki > 0) THEN 1 + kf ELSE 0)
    IN  [ok |-> ok, val |-> Num(IF neg THEN -mag ELSE mag, Pow10(kf)), used |-> used]

\* parseFloat(x): x is first converted to text; a number converts back to itself.
parseFloat(x) ==
    CASE IsNumber(x) -> x
      [] x.t = "str" ->
            LET p == NumericPrefix(x.s) IN IF p.ok THEN p.val ELSE JsNaN
      [] OTHER -> JsNaN

\* ToNumber(x), the conversion the operators / and - apply to an operand.
ToNumber(x) ==
    CASE IsNumber(x) -> x
      [] x.t = "undef" -> JsNaN
      [] x.t = "null" -> Num(0, 1)
      [] x.t = "str" ->
            IF Len(x.s) = 0 THEN Num(0, 1)
            ELSE LET p == NumericPrefix(x.s)
                 IN  IF p.ok /\ p.used = Len(x.s) THEN p.val ELSE JsNaN

\* x + 1 as JavaScript evaluates it: text concatenation when x is a string.
JsPlusOne(x) ==
    IF x.t = "str" THEN JsStr(x.s \o <<"1">>) ELSE JsAdd(ToNumber(x), Num(1, 1))

---------------------------------------------------------------------------
(* Request vocabulary                                                      *)

T5m  == <<"5", "m">>
T15m == <<"1", "5", "m">>
T30m == <<"3", "0", "m">>
T1h  == <<"1", "h">>
T4h  == <<"4", "h">>
T1d  == <<"1", "d">>
T1w  == <<"1", "w">>

\* The timeframes the dashboard offers (part_000:144-149).
CanonicalTimeframes == {T5m, T15m, T30m, T1h, T4h, T1d}

\* What the query string may carry: an offered timeframe, a token no table
\* knows, or nothing (<<>>).
TimeframeParams == CanonicalTimeframes \cup {T1w, <<>>}

SymbolParams == {"", "ETH"}

\* The configured adapters, in order (route.ts:71-78).
exchanges == <<"binanceusdm", "bybit", "okx", "bitget", "huobi", "gateio">>

N == Len(exchanges)

Adapters == 1..N

\* route.ts:53-59, as sets of <<canonical token, native token>>.
timeframeMap(exchangeId) ==
    CASE exchangeId = "binanceusdm" ->
            {<<T5m, T5m>>, <<T15m, T15m>>, <<T30m, T30m>>, <<T1h, T1h>>,
             <<T4h, T4h>>, <<T1d, T1d>>}
      [] exchangeId = "bybit" ->
            {<<T5m, <<"5", "m", "i", "n">>>>, <<T15m, <<"1", "5", "m", "i", "n">>>>,
             <<T30m, <<"3", "0", "m", "i", "n">>>>, <<T1h, T1h>>, <<T4h, T4h>>,
             <<T1d, T1d>>}
      [] exchangeId = "okx" ->
            {<<T5m, T5m>>, <<T15m, T15m>>, <<T30m, T30m>>, <<T1h, <<"1", "H">>>>,
             <<T4h, <<"4", "H">>>>}
      [] exchangeId = "bitget" ->
            {<<T5m, T5m>>, <<T15m, T15m>>, <<T30m, T30m>>, <<T1h, T1h>>, <<T4h, T4h>>}
      [] exchangeId = "gateio" ->
            {<<T5m, T5m>>, <<T15m, T15m>>, <<T30m, T30m>>, <<T1h, T1h>>,
             <<T4h, T4h>>, <<T1d, T1d>>}
      [] OTHER -> {}

\* timeframeMap[exchangeId][uiTimeframe] is defined (and so truthy: every
\* native token is a non-empty string).
HasNativeToken(exchangeId, uiTimeframe) ==
    \E p \in timeframeMap(exchangeId) : p[1] = uiTimeframe

NativeToken(exchangeId, uiTimeframe) ==
    (CHOOSE p \in timeframeMap(exchangeId) : p[1] = uiTimeframe)[2]

\* searchParams.get('symbol') || 'BTC'
requestedSymbolOf(param) == IF param = "" THEN "BTC" ELSE param

\* searchParams.get('timeframe') || '5m'
uiTimeframeOf(param) == IF param = <<>> THEN T5m ELSE param

RECURSIVE IndexOf(_, _, _)
\* the first position >= i of chars holding c, 0 when there is none
IndexOf(chars, c, i) ==
    IF i > Len(chars) THEN 0
    ELSE IF chars[i] = c THEN i ELSE IndexOf(chars, c, i + 1)

\* String.prototype.replace(c, rep) with a text pattern: the first occurrence.
ReplaceFirst(chars, c, rep) ==
    LET i == IndexOf(chars, c, 1)
    IN  IF i = 0 THEN chars
        ELSE SubSeq(chars, 1, i - 1) \o rep \o SubSeq(chars, i + 1, Len(chars))

\* route.ts:85
huobiTimeframeOf(uiTimeframe) ==
    ReplaceFirst(ReplaceFirst(uiTimeframe, "m", <<"m", "i", "n">>),
                 "h", <<"h", "o", "u", "r">>)

---------------------------------------------------------------------------
(* Records and upstream payloads                                           *)

NoMessage == [present |-> FALSE, text |-> <<>>]
Message(text) == [present |-> TRUE, text |-> text]

\* The raw 'info' object of a CCXT history entry; present = FALSE is an entry
\* without one.
Info(present, longAccount, shortAccount, longAccountRatio, shortAccountRatio, longShortRatio, buyRatio, sellRatio) ==
    [present |-> present,
     longAccount |-> longAccount, shortAccount |-> shortAccount,
     longAccountRatio |-> longAccountRatio, shortAccountRatio |-> shortAccountRatio,
     longShortRatio |-> longShortRatio,
     buyRatio |-> buyRatio, sellRatio |-> sellRatio]

NoInfo == Info(FALSE, JsUndef, JsUndef, JsUndef, JsUndef, JsUndef, JsUndef, JsUndef)

\* LongShortRatioData (route.ts:6-13) plus the 'info' key of route.ts:218.
\* A field that is JsUndef is absent from the record.
Record(exchange, status, longShortRatio, longPercent, shortPercent, message, info) ==
    [exchange |-> exchange, status |-> status,
     longShortRatio |-> longShortRatio,
     longPercent |-> longPercent, shortPercent |-> shortPercent,
     message |-> message, info |-> info]

ErrorRecord(exchangeId, text) ==
    Record(exchangeId, "Error", JsUndef, JsUndef, JsUndef, Message(text), NoInfo)

\* One element of an upstream list.  The Huobi adapter reads buy_ratio and
\* sell_ratio, the Gate.io adapter top_lsr_account, the CCXT adapters
\* longShortRatio and info.
Entry(buy_ratio, sell_ratio, top_lsr_account, longShortRatio, info) ==
    [buy_ratio |-> buy_ratio, sell_ratio |-> sell_ratio,
     top_lsr_account |-> top_lsr_account,
     longShortRatio |-> longShortRatio, info |-> info]

\* What an upstream call produces: a thrown fault with its message, or a
\* list (response.data.data.list, response.data, history); the empty list
\* also stands for a Huobi or Gate.io body without the list.
Fault(text) == [kind |-> "fault", message |-> text, list |-> <<>>]
Payload(list) == [kind |-> "ok", message |-> <<>>, list |-> list]
NoOutcome == [kind |-> "none", message |-> <<>>, list |-> <<>>]

---------------------------------------------------------------------------
(* parseExchangeData (route.ts:17-50)                                      *)

Hundred == Num(100, 1)
One == Num(1, 1)
Zero == Num(0, 1)

\* Reading a property of the entry's info throws when info is undefined; the
\* caller's try block catches it.
parseExchangeDataThrows(latestRatioData) == ~latestRatioData.info.present

parseExchangeData(exchangeId, latestRatioData) ==
    LET info == latestRatioData.info IN
    IF exchangeId = "binanceusdm" /\ Truthy(info.longAccount) /\ Truthy(info.shortAccount)
    THEN [longPercent  |-> JsMul(parseFloat(info.longAccount), Hundred),
          shortPercent |-> JsMul(parseFloat(info.shortAccount), Hundred)]
    ELSE IF exchangeId = "bitget" /\ Truthy(info.longAccountRatio)
                                  /\ Truthy(info.shortAccountRatio)
    THEN [longPercent  |-> JsMul(parseFloat(info.longAccountRatio), Hundred),
          shortPercent |-> JsMul(parseFloat(info.shortAccountRatio), Hundred)]
    ELSE IF exchangeId = "okx" /\ Truthy(info.longShortRatio)
    THEN LET ratio == parseFloat(info.longShortRatio)
             short == JsDiv(One, JsAdd(ratio, One))
             long  == JsSub(One, short)
         IN  [longPercent |-> JsMul(long, Hundred), shortPercent |-> JsMul(short, Hundred)]
    ELSE IF exchangeId = "bybit" /\ Truthy(info.buyRatio) /\ Truthy(info.sellRatio)
    THEN [longPercent  |-> JsMul(parseFloat(info.buyRatio), Hundred),
          shortPercent |-> JsMul(parseFloat(info.sellRatio), Hundred)]
    ELSE [longPercent |-> JsNull, shortPercent |-> JsNull]

---------------------------------------------------------------------------
(* The adapter bodies of GET's map callback (route.ts:80-226)              *)

NoRecord == Record("", "none", JsUndef, JsUndef, JsUndef, NoMessage, NoInfo)
NoCall == [exchange |-> "", contract |-> <<>>, period |-> <<>>]
Call(exchangeId, contract, period) ==
    [exchange |-> exchangeId, contract |-> contract, period |-> period]

\* States of an adapter's promise.
Pending(call) == [state |-> "pending", value |-> NoRecord, call |-> call, reason |-> <<>>]
Fulfilled(record) == [state |-> "fulfilled", value |-> record, call |-> NoCall, reason |-> <<>>]
Rejected(text) == [state |-> "rejected", value |-> NoRecord, call |-> NoCall, reason |-> text]
NotStarted == [state |-> "none", value |-> NoRecord, call |-> NoCall, reason |-> <<>>]

NotSupportedText(uiTimeframe) ==
    <<"Timeframe '">> \o uiTimeframe \o <<"' not supported.">>

\* The catch clauses (route.ts:108-110, 179-181, 223-225): the fault becomes
\* an Error record carrying e.message; the promise is fulfilled.
MutCatchRethrows(exchangeId, eMessage) == Rejected(eMessage)
Catch(exchangeId, eMessage) == Fulfilled(ErrorRecord(exchangeId, eMessage))

\* route.ts:93-107: buy/sell volumes normalised to percentages.
MutHuobiNoGuard(exchangeId, latestData) ==
    LET buyRatio   == parseFloat(latestData.buy_ratio)
        sellRatio  == parseFloat(latestData.sell_ratio)
        totalRatio == JsAdd(buyRatio, sellRatio)
    IN  Record(exchangeId, "Success",
               JsDiv(buyRatio, sellRatio),
               JsMul(JsDiv(buyRatio, totalRatio), Hundred),
               JsMul(JsDiv(sellRatio, totalRatio), Hundred),
               NoMessage, NoInfo)
MutHuobiNoNormalise(exchangeId, latestData) ==
    LET buyRatio   == parseFloat(latestData.buy_ratio)
        sellRatio  == parseFloat(latestData.sell_ratio)
    IN  Record(exchangeId, "Success",
               IF JsGtZero(sellRatio) THEN JsDiv(buyRatio, sellRatio) ELSE Zero,
               JsMul(buyRatio, Hundred), JsMul(sellRatio, Hundred),
               NoMessage, NoInfo)
huobiSuccess(exchangeId, latestData) ==
    LET buyRatio     == parseFloat(latestData.buy_ratio)
        sellRatio    == parseFloat(latestData.sell_ratio)
        totalRatio   == JsAdd(buyRatio, sellRatio)
        longPercent  == IF JsGtZero(totalRatio)
                        THEN JsMul(JsDiv(buyRatio, totalRatio), Hundred) ELSE Zero
        shortPercent == IF JsGtZero(totalRatio)
                        THEN JsMul(JsDiv(sellRatio, totalRatio), Hundred) ELSE Zero
    IN  Record(exchangeId, "Success",
               IF JsGtZero(sellRatio) THEN JsDiv(buyRatio, sellRatio) ELSE Zero,
               longPercent, shortPercent, NoMessage, NoInfo)

\* route.ts:88-111, after the await of route.ts:86.
huobiResume(exchangeId, outcome) ==
    IF outcome.kind = "fault" THEN Catch(exchangeId, outcome.message)
    ELSE IF outcome.list = <<>>
            \/ outcome.list[1].buy_ratio.t = "undef"
            \/ outcome.list[1].sell_ratio.t = "undef"
    THEN Fulfilled(ErrorRecord(exchangeId, <<"Invalid data from Huobi API.">>))
    ELSE Fulfilled(huobiSuccess(exchangeId, outcome.list[1]))

\* route.ts:165-178: the ratio is used as received, without parseFloat.
gateioSuccess(exchangeId, latestData) ==
    LET ratio == latestData.top_lsr_account
        short == JsDiv(One, ToNumber(JsPlusOne(ratio)))
        long  == JsSub(One, short)
    IN  Record(exchangeId, "Success", ratio,
               JsMul(long, Hundred), JsMul(short, Hundred), NoMessage, NoInfo)

\* route.ts:160-181, after the await of route.ts:158.
gateioResume(exchangeId, outcome) ==
    IF outcome.kind = "fault" THEN Catch(exchangeId, outcome.message)
    ELSE IF outcome.list = <<>> \/ ~Truthy(outcome.list[1].top_lsr_account)
    THEN Fulfilled(ErrorRecord(exchangeId, <<"No data returned from Gate.io API.">>))
    ELSE Fulfilled(gateioSuccess(exchangeId, outcome.list[1]))

\* route.ts:209-219
ccxtSuccess(exchangeId, latestRatioData) ==
    LET parsed == parseExchangeData(exchangeId, latestRatioData)
    IN  Record(exchangeId, "Success", latestRatioData.longShortRatio,
               parsed.longPercent, parsed.shortPercent, NoMessage,
               latestRatioData.info)

\* route.ts:205-225, after the await of route.ts:203.
ccxtResume(exchangeId, outcome) ==
    IF outcome.kind = "fault" THEN Catch(exchangeId, outcome.message)
    ELSE IF Len(outcome.list) = 0
    THEN Fulfilled(ErrorRecord(exchangeId, <<"Exchange returned no data.">>))
    ELSE IF parseExchangeDataThrows(outcome.list[1])
    THEN Catch(exchangeId, <<"Cannot read properties of undefined">>)
    ELSE Fulfilled(ccxtSuccess(exchangeId, outcome.list[1]))

\* The callback up to its first await (or to its return when it never
\* awaits).  has is exchange.has['fetchLongShortRatioHistory'] of the CCXT
\* class, an input of the library.
AdapterStart(exchangeId, requestedSymbol, uiTimeframe, has) ==
    IF exchangeId = "huobi"
    THEN Pending(Call(exchangeId, <<requestedSymbol, "-USDT">>,
                      huobiTimeframeOf(uiTimeframe)))
    ELSE IF exchangeId = "gateio"
    THEN IF ~HasNativeToken("gateio", uiTimeframe)
         THEN Fulfilled(ErrorRecord(exchangeId, NotSupportedText(uiTimeframe)))
         ELSE Pending(Call(exchangeId, <<requestedSymbol, "_USDT">>,
                           NativeToken("gateio", uiTimeframe)))
    ELSE IF timeframeMap(exchangeId) = {} \/ ~HasNativeToken(exchangeId, uiTimeframe)
    THEN Fulfilled(ErrorRecord(exchangeId, NotSupportedText(uiTimeframe)))
    ELSE IF has
    THEN Pending(Call(exchangeId,
                      IF exchangeId = "bybit" THEN <<requestedSymbol, "USDT">>
                      ELSE <<requestedSymbol, "/USDT:USDT">>,
                      NativeToken(exchangeId, uiTimeframe)))
    ELSE Fulfilled(Record(exchangeId, "Not Supported", JsUndef, JsUndef, JsUndef,
                          NoMessage, NoInfo))

\* The callback from its await to its return.
AdapterResume(exchangeId, outcome) ==
    IF exchangeId = "huobi" THEN huobiResume(exchangeId, outcome)
    ELSE IF exchangeId = "gateio" THEN gateioResume(exchangeId, outcome)
    ELSE ccxtResume(exchangeId, outcome)

---------------------------------------------------------------------------
(* Upstream payloads the adapters are run on                               *)

MaxNum == 3
MaxDen == 2

\* Finite numbers n/d on a grid.
GridValues == {Num(n, d) : n \in 0..MaxNum, d \in 1..MaxDen}

\* Numbers sent as text, as most exchanges send them.
TextValues ==
    {JsStr(<<"0", ".", "6", "3">>), JsStr(<<"0", ".", "3", "7">>),
     JsStr(<<"2", ".", "5">>), JsStr(<<"0">>),
     JsStr(<<"3", "0", "0">>), JsStr(<<"1", "0", "0">>)}

\* Absent, null, empty, non-numeric and negative fields.
OddValues ==
    {JsUndef, JsNull, JsStr(<<>>), JsStr(<<"a", "b", "c">>), Num(-1, 1)}

RawValues == GridValues \cup TextValues \cup OddValues

CcxtExchanges == {"binanceusdm", "bybit", "okx", "bitget"}

\* An upstream element whose fields, as the adapter of exchangeId reads them
\* (route.ts:22, 28, 34, 44, 89, 161), are a and b; the ratio-only adapters
\* read a alone.
EntryFor(exchangeId, a, b, lsr) ==
    CASE exchangeId = "huobi"  -> Entry(a, b, JsUndef, JsUndef, NoInfo)
      [] exchangeId = "gateio" -> Entry(JsUndef, JsUndef, a, JsUndef, NoInfo)
      [] exchangeId = "binanceusdm" ->
            Entry(JsUndef, JsUndef, JsUndef, lsr,
                  Info(TRUE, a, b, JsUndef, JsUndef, JsUndef, JsUndef, JsUndef))
      [] exchangeId = "bitget" ->
            Entry(JsUndef, JsUndef, JsUndef, lsr,
                  Info(TRUE, JsUndef, JsUndef, a, b, JsUndef, JsUndef, JsUndef))
      [] exchangeId = "okx" ->
            Entry(JsUndef, JsUndef, JsUndef, lsr,
                  Info(TRUE, JsUndef, JsUndef, JsUndef, JsUndef, a, JsUndef, JsUndef))
      [] exchangeId = "bybit" ->
            Entry(JsUndef, JsUndef, JsUndef, lsr,
                  Info(TRUE, JsUndef, JsUndef, JsUndef, JsUndef, JsUndef, a, b))

RatioOnly(exchangeId) == exchangeId \in {"okx", "gateio"}

FaultTexts == {<<"Network Error">>, <<"Request failed with status code 500">>}

\* Every upstream outcome one adapter is applied to.
OutcomesOf(exchangeId) ==
    {Fault(m) : m \in FaultTexts}
    \cup {Payload(<<>>)}
    \cup (IF exchangeId \in CcxtExchanges
          THEN {Payload(<<Entry(JsUndef, JsUndef, JsUndef, JsUndef, NoInfo)>>)}
          ELSE {})
    \cup {Payload(<<EntryFor(exchangeId, a, b, Num(3, 2))>>) :
            a \in RawValues,
            b \in IF RatioOnly(exchangeId) THEN {JsUndef} ELSE RawValues}

\* The outcomes used where several adapters run together: a well-formed
\* payload and a transport fault.
GoodOutcome(exchangeId) ==
    CASE exchangeId = "huobi" ->
            Payload(<<EntryFor(exchangeId, Num(3, 1), Num(1, 1), JsUndef)>>)
      [] exchangeId = "gateio" ->
            Payload(<<EntryFor(exchangeId, Num(3, 2), JsUndef, JsUndef)>>)
      [] exchangeId = "okx" ->
            Payload(<<EntryFor(exchangeId, JsStr(<<"2", ".", "5">>), JsUndef, Num(5, 2))>>)
      [] OTHER ->
            Payload(<<EntryFor(exchangeId, JsStr(<<"0", ".", "6", "3">>),
                               JsStr(<<"0", ".", "3", "7">>), Num(63, 37))>>)

FewOutcomes(exchangeId) ==
    {GoodOutcome(exchangeId), Fault(<<"Network Error">>)}

---------------------------------------------------------------------------
(* One adapter applied to one upstream outcome                             *)

GetIdle ==
    /\ symbolParam = "" /\ timeframeParam = <<>> /\ getPc = "off"
    /\ promises = [i \in Adapters |-> NotStarted]
    /\ netCalls = <<>>
    /\ upstream = [i \in Adapters |-> NoOutcome]
    /\ results = <<>> /\ plan = [i \in Adapters |-> NoOutcome]
    /\ failing = 0 /\ run = 1 /\ resultsA = <<>>
    /\ ccxtHas = [e \in CcxtExchanges |-> TRUE]
    /\ firstCompleted = 0

AdIdle ==
    /\ adEx = "" /\ adTf = <<>> /\ adHas = FALSE /\ adOutcome = NoOutcome
    /\ adRecord = NotStarted /\ adCalled = NoCall

\* useState([]) of part_000:93, and the response to a ratio fetch: the list
\* the route returned, identified by the request it answers.
EmptyList == [id |-> 0, symbol |-> "", timeframe |-> <<>>]
ResponseTo(fetch) ==
    [id |-> fetch.id, symbol |-> fetch.symbol, timeframe |-> fetch.timeframe]

DashIdle ==
    /\ symbol = "" /\ timeframe = <<>> /\ ratioData = EmptyList /\ loading = FALSE
    /\ availableSymbols = {} /\ inflight = {} /\ issued = 0 /\ failedIds = {}

AdInit ==
    /\ adEx \in {exchanges[i] : i \in Adapters}
    /\ adTf \in CanonicalTimeframes \cup {T1w}
    /\ adHas \in BOOLEAN
    /\ adOutcome = NoOutcome /\ adRecord = NotStarted /\ adCalled = NoCall
    /\ GetIdle /\ DashIdle

\* The callback runs to its first await, or to its return.
AdStart ==
    /\ adRecord.state = "none"
    /\ adRecord' = AdapterStart(adEx, "BTC", adTf, adHas)
    /\ adCalled' = adRecord'.call
    /\ UNCHANGED <<adEx, adTf, adHas, adOutcome>>
    /\ UNCHANGED getVars /\ UNCHANGED dashVars

\* The awaited upstream call settles and the callback runs to its return.
AdFinish ==
    /\ adRecord.state = "pending"
    /\ \E o \in OutcomesOf(adEx) :
          /\ adOutcome' = o
          /\ adRecord' = AdapterResume(adEx, o)
    /\ UNCHANGED <<adEx, adTf, adHas, adCalled>>
    /\ UNCHANGED getVars /\ UNCHANGED dashVars

AdNext == AdStart \/ AdFinish

SpecAdapter == AdInit /\ [][AdNext]_vars

---------------------------------------------------------------------------
(* Properties of one adapter (checked under SpecAdapter)                   *)

AdReturned == adRecord.state = "fulfilled"
AdResumed == AdReturned /\ adOutcome.kind # "none"
AdEntry == adOutcome.list[1]
AdHasEntry == adOutcome.kind = "ok" /\ Len(adOutcome.list) > 0

\* x is a finite number, as a number or as numeric text
Numeric(x) == x.t \in {"num", "str"} /\ IsNum(parseFloat(x))
                /\ (x.t = "str" => NumericPrefix(x.s).used = Len(x.s))

\* |long + short - 100| <= 0.01 for finite long and short
WithinTolerance(long, short) ==
    /\ IsNum(long) /\ IsNum(short)
    /\ LET sum == JsAdd(long, short)
       IN  100 * Abs(sum.n - 100 * sum.d) <= sum.d

\* The fields the adapter of exchangeId derives its percentages from.
NeededFields(exchangeId, e) ==
    CASE exchangeId = "huobi"       -> {e.buy_ratio, e.sell_ratio}
      [] exchangeId = "gateio"      -> {e.top_lsr_account}
      [] exchangeId = "binanceusdm" -> {e.info.longAccount, e.info.shortAccount}
      [] exchangeId = "bitget"      -> {e.info.longAccountRatio, e.info.shortAccountRatio}
      [] exchangeId = "okx"         -> {e.info.longShortRatio}
      [] exchangeId = "bybit"       -> {e.info.buyRatio, e.info.sellRatio}

\* C3: every returned record has one of the three statuses; a Success record
\* carries longPercent and shortPercent as numbers; any other record carries
\* neither.  (Fails on the code: the CCXT adapters return Success with null
\* percentages when the info fields are missing.)
C3_StatusExhaustive ==
    AdReturned =>
        LET r == adRecord.value IN
        /\ r.status \in {"Success", "Not Supported", "Error"}
        /\ r.status = "Success" => IsNumber(r.longPercent) /\ IsNumber(r.shortPercent)
        /\ r.status # "Success" => r.longPercent = JsUndef /\ r.shortPercent = JsUndef

\* C4 as stated: every Success record (that carries its two percentages as
\* finite numbers) has longPercent + shortPercent within 0.01 of 100.
\* (Fails on the code: Huobi buy = sell = 0 gives 0 and 0, and the
\* direct-percentage adapters scale whatever fractions upstream sent.)
C4_PercentSumAll ==
    (AdReturned /\ adRecord.value.status = "Success"
       /\ IsNum(adRecord.value.longPercent) /\ IsNum(adRecord.value.shortPercent)) =>
        WithinTolerance(adRecord.value.longPercent, adRecord.value.shortPercent)

\* The inputs on which an adapter normalises: Huobi with numeric volumes of
\* positive sum; Gate.io with a non-zero number other than -1; OKX with a
\* ratio other than -1 sent as numeric text or as a non-zero number.
C4_Normalising ==
    /\ AdHasEntry
    /\ \/ /\ adEx = "huobi"
          /\ Numeric(AdEntry.buy_ratio) /\ Numeric(AdEntry.sell_ratio)
          /\ JsGtZero(JsAdd(parseFloat(AdEntry.buy_ratio), parseFloat(AdEntry.sell_ratio)))
       \/ /\ adEx = "gateio"
          /\ AdEntry.top_lsr_account.t = "num"
          /\ AdEntry.top_lsr_account.n # 0
          /\ AdEntry.top_lsr_account # Num(-1, 1)
       \/ /\ adEx = "okx"
          /\ Numeric(AdEntry.info.longShortRatio)
          /\ Truthy(AdEntry.info.longShortRatio)
          /\ parseFloat(AdEntry.info.longShortRatio) # Num(-1, 1)

\* C4 amended: on the normalising inputs the record is a Success record and
\* its longPercent + shortPercent is within 0.01 of 100.
C4_PercentSumNormalised ==
    (AdResumed /\ C4_Normalising) =>
        /\ adRecord.value.status = "Success"
        /\ WithinTolerance(adRecord.value.longPercent, adRecord.value.shortPercent)

C4_Witness ==
    /\ AdResumed /\ C4_Normalising
    /\ adEx = "huobi"
    /\ AdEntry.buy_ratio = Num(3, 1) /\ AdEntry.sell_ratio = Num(1, 1)
    /\ adRecord.value.longPercent = Num(75, 1)

\* C5: an adapter asked for a timeframe it has no native token for returns
\* Error or Not Supported and issues no network call.  For Huobi, which has
\* no table, the tokens are those its conversion produces.  (Fails on the
\* code: the Huobi adapter passes '1d' and '1w' through and calls anyway.)
C5_NoNativeToken(exchangeId, uiTimeframe) ==
    IF exchangeId = "huobi" THEN huobiTimeframeOf(uiTimeframe) = uiTimeframe
    ELSE ~HasNativeToken(exchangeId, uiTimeframe)

C5_UnsupportedNeverCalls ==
    (adRecord.state # "none" /\ C5_NoNativeToken(adEx, adTf)) =>
        /\ adCalled = NoCall
        /\ adRecord.state = "fulfilled"
        /\ adRecord.value.status \in {"Error", "Not Supported"}

\* C6: when the upstream call succeeds but the fields the adapter needs are
\* absent, empty or not numeric, the record is an Error record with a
\* message.  (Fails on the code.)
C6_BadShape ==
    /\ adOutcome.kind = "ok"
    /\ \/ Len(adOutcome.list) = 0
       \/ (adEx \in CcxtExchanges /\ ~AdEntry.info.present)
       \/ \E x \in NeededFields(adEx, AdEntry) : ~Numeric(x)

C6_DataShapeFailure ==
    (AdResumed /\ C6_BadShape) =>
        /\ adRecord.value.status = "Error"
        /\ adRecord.value.message.present

\* C7: every Not Supported or Error record carries a message.  (Fails on the
\* code: the Not Supported record of route.ts:221 has none.)
C7_MessagePresent ==
    (AdReturned /\ adRecord.value.status \in {"Not Supported", "Error"}) =>
        adRecord.value.message.present

\* C8: the Huobi adapter, on non-negative numeric buy = bn/bd and
\* sell = sn/sd, returns Success with longPercent = 100*buy/(buy+sell) and
\* shortPercent = 100*sell/(buy+sell) when buy+sell > 0 and 0 otherwise, and
\* longShortRatio = buy/sell when sell > 0 and 0 otherwise.
C8_NonNegative ==
    /\ adEx = "huobi" /\ AdHasEntry
    /\ Numeric(AdEntry.buy_ratio) /\ Numeric(AdEntry.sell_ratio)
    /\ parseFloat(AdEntry.buy_ratio).n >= 0 /\ parseFloat(AdEntry.sell_ratio).n >= 0

C8_RawVolume ==
    (AdResumed /\ C8_NonNegative) =>
        LET r   == adRecord.value
            buy == parseFloat(AdEntry.buy_ratio)
            sel == parseFloat(AdEntry.sell_ratio)
            tn  == buy.n * sel.d + sel.n * buy.d     \* buy + sell = tn / td
            td  == buy.d * sel.d
        IN  /\ r.status = "Success"
            /\ IsNum(r.longPercent) /\ IsNum(r.shortPercent) /\ IsNum(r.longShortRatio)
            /\ IF tn > 0
               THEN /\ r.longPercent = Num(100 * buy.n * td, tn * buy.d)
                    /\ r.shortPercent = Num(100 * sel.n * td, tn * sel.d)
               ELSE r.longPercent = Num(0, 1) /\ r.shortPercent = Num(0, 1)
            /\ IF sel.n > 0
               THEN r.longShortRatio = Num(buy.n * sel.d, sel.n * buy.d)
               ELSE r.longShortRatio = Num(0, 1)
            /\ (AdEntry.buy_ratio = JsStr(<<"3", "0", "0">>)
                  /\ AdEntry.sell_ratio = JsStr(<<"1", "0", "0">>))
                 => /\ r.longPercent = Num(75, 1) /\ r.shortPercent = Num(25, 1)
                    /\ r.longShortRatio = Num(3, 1)

\* buy = sell = 0 went through the adapter and came out as 0, 0, 0
C8_Witness ==
    /\ AdResumed /\ C8_NonNegative
    /\ AdEntry.buy_ratio = Num(0, 1) /\ AdEntry.sell_ratio = Num(0, 1)
    /\ adRecord.value.status = "Success"
    /\ adRecord.value.longPercent = Num(0, 1)
    /\ adRecord.value.longShortRatio = Num(0, 1)

\* C9: the OKX and Gate.io adapters, on a ratio R >= 0 (a number for
\* Gate.io, whose adapter uses it unparsed; a number or numeric text for OKX),
\* return Success with shortPercent = 100/(R+1) and
\* longPercent = 100 - shortPercent.  (Fails on the code for R = 0 sent as a
\* number: the adapters take a zero for a missing field.)
C9_RatioInput ==
    IF adEx = "okx" THEN AdEntry.info.longShortRatio ELSE AdEntry.top_lsr_account

C9_RatioOnly ==
    (AdResumed /\ RatioOnly(adEx) /\ AdHasEntry
       /\ Numeric(C9_RatioInput) /\ parseFloat(C9_RatioInput).n >= 0
       /\ (adEx = "gateio" => C9_RatioInput.t = "num")) =>
        LET r  == adRecord.value
            rr == parseFloat(C9_RatioInput)
        IN  /\ r.status = "Success"
            /\ IsNum(r.longPercent) /\ IsNum(r.shortPercent)
            /\ r.shortPercent = Num(100 * rr.d, rr.n + rr.d)
            /\ r.longPercent = Num(100 * rr.n, rr.n + rr.d)

---------------------------------------------------------------------------
(* GET (route.ts:66-230)                                                   *)

requestedSymbol == requestedSymbolOf(symbolParam)
uiTimeframe == uiTimeframeOf(timeframeParam)

HasOf(exchangeId) == IF exchangeId \in CcxtExchanges THEN ccxtHas[exchangeId] ELSE FALSE

RECURSIVE CallsOf(_, _)
\* the calls of the pending promises ps[i..N], in index order
CallsOf(ps, i) ==
    IF i > N THEN <<>>
    ELSE (IF ps[i].state = "pending" THEN <<ps[i].call>> ELSE <<>>) \o CallsOf(ps, i + 1)

\* Promise.all(promises) (route.ts:228) settles when every promise is
\* fulfilled, or as soon as one is rejected.
MutPromiseAnyFulfilled(ps) == \E i \in Adapters : ps[i].state = "fulfilled"
PromiseAllFulfilled(ps) == \A i \in Adapters : ps[i].state = "fulfilled"

PromiseAllRejected(ps) == \E i \in Adapters : ps[i].state = "rejected"

\* The value Promise.all fulfils with: the promises' values in index order.
PromiseAllValues(ps) == [i \in Adapters |-> ps[i].value]

GetInit ==
    /\ symbolParam \in SymbolParams
    /\ timeframeParam \in TimeframeParams
    /\ ccxtHas \in [CcxtExchanges -> BOOLEAN]
    /\ getPc = "idle"
    /\ promises = [i \in Adapters |-> NotStarted]
    /\ netCalls = <<>>
    /\ upstream = [i \in Adapters |-> NoOutcome]
    /\ results = <<>>
    /\ plan = [i \in Adapters |-> NoOutcome]
    /\ failing = 0 /\ run = 1 /\ resultsA = <<>>
    /\ firstCompleted = 0
    /\ AdIdle /\ DashIdle

\* route.ts:67-80: exchanges.map runs every callback, in order, up to its
\* first await; then GET awaits Promise.all.
GET ==
    /\ getPc = "idle"
    /\ promises' = [i \in Adapters |->
                      AdapterStart(exchanges[i], requestedSymbol, uiTimeframe,
                                   HasOf(exchanges[i]))]
    /\ netCalls' = CallsOf(promises', 1)
    /\ getPc' = "awaiting"
    /\ UNCHANGED <<symbolParam, timeframeParam, upstream, results, plan, failing,
                   run, resultsA, ccxtHas, firstCompleted>>
    /\ UNCHANGED adVars /\ UNCHANGED dashVars

\* The upstream call of adapter i settles, in any order among the adapters,
\* and its callback runs to its return.
Complete(i) ==
    /\ getPc = "awaiting"
    /\ promises[i].state = "pending"
    /\ \E o \in FewOutcomes(exchanges[i]) :
          /\ plan[i] # NoOutcome => o = plan[i]
          /\ upstream' = [upstream EXCEPT ![i] = o]
          /\ promises' = [promises EXCEPT ![i] = AdapterResume(exchanges[i], o)]
    /\ firstCompleted' = IF firstCompleted = 0 THEN i ELSE firstCompleted
    /\ UNCHANGED <<symbolParam, timeframeParam, getPc, netCalls, results, plan,
                   failing, run, resultsA, ccxtHas>>
    /\ UNCHANGED adVars /\ UNCHANGED dashVars

\* route.ts:228-229: Promise.all settles and GET returns the list (or throws).
Return ==
    /\ getPc = "awaiting"
    /\ PromiseAllFulfilled(promises) \/ PromiseAllRejected(promises)
    /\ IF PromiseAllRejected(promises)
       THEN getPc' = "rejected" /\ results' = <<>>
       ELSE getPc' = "returned" /\ results' = PromiseAllValues(promises)
    /\ UNCHANGED <<symbolParam, timeframeParam, promises, netCalls, upstream, plan,
                   failing, run, resultsA, ccxtHas, firstCompleted>>
    /\ UNCHANGED adVars /\ UNCHANGED dashVars

GetNext == GET \/ (\E i \in Adapters : Complete(i)) \/ Return

Spec == GetInit /\ [][GetNext]_vars

\* C1: GET returns only after every adapter has completed, with exactly N
\* records, the i-th carrying the identifier of the i-th configured adapter.
C1_Completeness ==
    /\ getPc # "rejected"
    /\ getPc = "returned" =>
          /\ \A i \in Adapters : promises[i].state = "fulfilled"
          /\ Len(results) = N
          /\ \A i \in Adapters : results[i].exchange = exchanges[i]
          /\ \A i \in Adapters :
                promises[i].value.status \in {"Success", "Not Supported", "Error"}

\* GET returned after all six adapters made their calls and the call of the
\* last configured adapter settled first.
C1_Witness ==
    /\ getPc = "returned"
    /\ Len(netCalls) = N
    /\ \A i \in Adapters : upstream[i] # NoOutcome
    /\ firstCompleted = N
    /\ results[1].status = "Success" /\ results[N].exchange = "gateio"

---------------------------------------------------------------------------
(* Two requests with the same upstream behaviour except for one adapter    *)

\* The adapters that issue an upstream call for this request.
Callers(sym, tf, has) ==
    {i \in Adapters :
        AdapterStart(exchanges[i], requestedSymbolOf(sym), uiTimeframeOf(tf),
                     IF exchanges[i] \in CcxtExchanges THEN has[exchanges[i]] ELSE FALSE).state
          = "pending"}

\* How many adapters other than the failing one may fail as well.
MaxOtherFaults == 1

IsoInit ==
    /\ symbolParam = "ETH"
    /\ timeframeParam \in TimeframeParams
    /\ ccxtHas = [e \in CcxtExchanges |-> TRUE]
    /\ failing \in Callers(symbolParam, timeframeParam, ccxtHas)
    /\ \E others \in SUBSET (Adapters \ {failing}) :
          /\ Cardinality(others) <= MaxOtherFaults
          /\ plan = [i \in Adapters |->
                        IF i \in others \cup {failing}
                        THEN Fault(<<"Network Error">>)
                        ELSE GoodOutcome(exchanges[i])]
    /\ getPc = "idle"
    /\ promises = [i \in Adapters |-> NotStarted]
    /\ netCalls = <<>>
    /\ upstream = [i \in Adapters |-> NoOutcome]
    /\ results = <<>>
    /\ run = 1 /\ resultsA = <<>>
    /\ firstCompleted = 0
    /\ AdIdle /\ DashIdle

\* A second request for the same symbol and timeframe, in which the upstream
\* of the failing adapter answers and every other upstream behaves as before.
Rerun ==
    /\ getPc = "returned" /\ run = 1
    /\ resultsA' = results
    /\ run' = 2
    /\ plan' = [plan EXCEPT ![failing] = GoodOutcome(exchanges[failing])]
    /\ getPc' = "idle"
    /\ promises' = [i \in Adapters |-> NotStarted]
    /\ netCalls' = <<>>
    /\ upstream' = [i \in Adapters |-> NoOutcome]
    /\ results' = <<>>
    /\ firstCompleted' = 0
    /\ UNCHANGED <<symbolParam, timeframeParam, failing, ccxtHas>>
    /\ UNCHANGED adVars /\ UNCHANGED dashVars

IsoNext == GET \/ (\E i \in Adapters : Complete(i)) \/ Return \/ Rerun

SpecIso == IsoInit /\ [][IsoNext]_vars

\* C2: when the upstream call of adapter `failing` fails, GET still returns
\* N records, that adapter's record is an Error record, and every other
\* adapter's record equals its record in the request where the failing
\* adapter's upstream answers.
C2_Isolation ==
    /\ getPc # "rejected"
    /\ (getPc = "returned" /\ run = 1) =>
          /\ Len(results) = N
          /\ results[failing].status = "Error"
          /\ results[failing].message = Message(plan[failing].message)
    /\ (getPc = "returned" /\ run = 2) =>
          /\ Len(results) = N /\ Len(resultsA) = N
          /\ \A i \in Adapters \ {failing} : results[i] = resultsA[i]

\* Both requests returned; the adapter failed in the first and succeeded in
\* the second, where its call settled before every other, next to another
\* adapter that succeeded in both.
C2_Witness ==
    /\ getPc = "returned" /\ run = 2
    /\ resultsA[failing].status = "Error"
    /\ results[failing].status = "Success"
    /\ \E i \in Adapters \ {failing} :
          resultsA[i].status = "Success" /\ results[i].status = "Success"
    /\ firstCompleted = failing

---------------------------------------------------------------------------
(* LongShortDashboard (part_000:92-122)                                    *)

\* How many ratio fetches one run of the component issues.
MaxFetches == 4

MarketSymbols == {"BTC", "ETH"}

Fetch(id, sym, tf) == [id |-> id, symbol |-> sym, timeframe |-> tf]

\* The component after its first render: both effects have run, so the
\* first ratio fetch, for BTC and 5m, is in flight.
DashInit ==
    /\ symbol = "BTC" /\ timeframe = T5m
    /\ ratioData = EmptyList
    /\ loading = TRUE
    /\ availableSymbols = {"BTC"}
    /\ issued = 1
    /\ inflight = {Fetch(1, "BTC", T5m)}
    /\ failedIds = {}
    /\ GetIdle /\ AdIdle

\* part_000:100-107: the markets fetch answers with an array.
FetchSymbolsResolve ==
    /\ availableSymbols = {"BTC"}
    /\ availableSymbols' = MarketSymbols
    /\ UNCHANGED <<symbol, timeframe, ratioData, loading, inflight, issued, failedIds>>
    /\ UNCHANGED getVars /\ UNCHANGED adVars

\* The effect of part_000:110-122 after a selection changed: setLoading(true)
\* and a new fetch; earlier fetches stay in flight.
RunRatioEffect(sym, tf) ==
    /\ loading' = TRUE
    /\ issued' = issued + 1
    /\ inflight' = inflight \cup {Fetch(issued + 1, sym, tf)}

\* onValueChange={setSymbol} with another symbol.
SelectSymbol(sym) ==
    /\ issued < MaxFetches
    /\ sym \in availableSymbols /\ sym # symbol
    /\ symbol' = sym
    /\ RunRatioEffect(sym, timeframe)
    /\ UNCHANGED <<timeframe, ratioData, availableSymbols, failedIds>>
    /\ UNCHANGED getVars /\ UNCHANGED adVars

\* onValueChange={setTimeframe} with another timeframe.
SelectTimeframe(tf) ==
    /\ issued < MaxFetches
    /\ tf \in CanonicalTimeframes /\ tf # timeframe
    /\ timeframe' = tf
    /\ RunRatioEffect(symbol, tf)
    /\ UNCHANGED <<symbol, ratioData, availableSymbols, failedIds>>
    /\ UNCHANGED getVars /\ UNCHANGED adVars

\* part_000:114-116, 119: a fetch answers; its response is stored whatever
\* the selection now is, and loading is cleared.
FetchResolve(f) ==
    /\ f \in inflight
    /\ inflight' = inflight \ {f}
    /\ ratioData' = ResponseTo(f)
    /\ loading' = FALSE
    /\ UNCHANGED <<symbol, timeframe, availableSymbols, issued, failedIds>>
    /\ UNCHANGED getVars /\ UNCHANGED adVars

\* part_000:117-119: a fetch throws; the stored data stays, loading is cleared.
FetchFail(f) ==
    /\ f \in inflight
    /\ inflight' = inflight \ {f}
    /\ failedIds' = failedIds \cup {f.id}
    /\ loading' = FALSE
    /\ UNCHANGED <<symbol, timeframe, ratioData, availableSymbols, issued>>
    /\ UNCHANGED getVars /\ UNCHANGED adVars

DashNext ==
    \/ FetchSymbolsResolve
    \/ \E sym \in MarketSymbols : SelectSymbol(sym)
    \/ \E tf \in CanonicalTimeframes : SelectTimeframe(tf)
    \/ \E f \in inflight : FetchResolve(f)
    \/ \E f \in inflight : FetchFail(f)

SpecDash == DashInit /\ [][DashNext]_vars

\* C10: once no fetch is in flight (and the fetch for the current selection
\* did not throw) the stored ratioData is the response to the request for
\* the selected symbol and timeframe, and loading is false only when no
\* fetch is in flight.  (Fails on the code: responses are stored in arrival
\* order and any settled fetch clears loading.)
C10_LatestSelectionWins ==
    /\ (inflight = {} /\ issued \notin failedIds) =>
          ratioData = ResponseTo(Fetch(issued, symbol, timeframe))
    /\ ~loading => inflight = {}

===========================================================================
